---- MODULE Spec2Model ----
(***************************************************************************)
(* zwift_capture (src/src/lib.rs): a pcap capture is pulled frame by       *)
(* frame; every UDP datagram is tagged FromServer / ToServer by its source *)
(* port, the protobuf message inside is located and decoded, and every     *)
(* decoded PlayerState is normalised into a Player record.                 *)
(*                                                                         *)
(* Three specifications share the variables:                               *)
(*   SpecNormalize  Player::from applied to one raw PlayerState            *)
(*   SpecDecode     ZwiftMessage::get_players applied to one payload       *)
(*   SpecCapture    Iterator::next pulled repeatedly over a recorded file  *)
(*                                                                         *)
(* Sequences are 1-based here and 0-based in the source: the source's      *)
(* payload[i] is payload[i + 1] below.  Offsets and limits keep the        *)
(* source's 0-based values.                                                *)
(***************************************************************************)
EXTENDS Integers, Sequences, FiniteSets, TLC

VARIABLES
    build,      \* "debug" (overflow checks on) or "release" (wrapping arithmetic)
    rawState,   \* Player::from: the decoded PlayerState handed in
    player,     \* Player::from: the record returned ("none" before the call)
    payload,    \* get_players: the bytes borrowed by the ZwiftMessage
    msgTag,     \* get_players: "FromServer" or "ToServer"
    offset,     \* get_players, ToServer arm: local `offset` at line 113 (-1: not reached)
    limit,      \* get_players, ToServer arm: local `limit` at line 113 (-1: not reached)
    ret,        \* get_players: what the call did
    frames,     \* the recorded capture: the frames pcap will deliver, in order
    pos,        \* how many frames capture.next() has handed out
    log,        \* what each Iterator::next call so far did, in call order
    alive       \* FALSE once a pull has panicked (the thread unwinds)

vars == <<build, rawState, player, payload, msgTag, offset, limit, ret,
          frames, pos, log, alive>>

-----------------------------------------------------------------------------
(* Bounds of the model *)

\* longest payload enumerated byte by byte
MaxLen == 5
\* most PlayerState entries in an encoded ServerToClient payload
MaxEntries == 2
\* most header bytes in front of an encoded ClientToServer message
MaxHeader == 2
\* most frames in the recorded capture
MaxFrames == 2
\* pulls made after the capture is exhausted
ExtraPulls == 1

-----------------------------------------------------------------------------
(* Program constants *)

\* if source_port == 3022
ServerPort == 3022
\* if byte == 0x8 as u8
TagByte == 8
\* payload.len() - 4
TrailerLen == 4
\* u8 arithmetic wraps modulo 2^8 when overflow checks are off
U8Mod == 256
\* usize arithmetic wraps modulo 2^64 when overflow checks are off.  TLC's
\* integers are 32 bits wide, so the model wraps modulo 2^30: every other
\* quantity compared with a wrapped value is below 2^9 (a u8, or the length
\* of a payload), and the comparisons come out the same.
UsizeMod == 1073741824

Builds == {"debug", "release"}

Min(S) == CHOOSE x \in S : \A y \in S : x <= y

\* Rust's integer division truncates toward zero; \div floors.
TruncDiv(a, b) == IF a >= 0 THEN a \div b ELSE -((-a) \div b)

-----------------------------------------------------------------------------
(* Player::from *)

\* the fields of zwift_messages::PlayerState the model carries
DefaultPlayerState ==
    [id |-> 0, cadenceUHz |-> 0, f20 |-> 0, heartrate |-> 0, power |-> 0]

\* a plausible slip: the division by 100 done before the multiplication
CadenceDivFirst(cadenceUHz) ==
    TruncDiv(TruncDiv(cadenceUHz, 1000), 100) * 6

\* cadence: player_state.get_cadenceUHz() / 1_000 * 6 / 100
\* (|cadenceUHz / 1000| <= 2147483, so the i32 product cannot overflow)
Cadence(cadenceUHz) ==
    TruncDiv(TruncDiv(cadenceUHz, 1000) * 6, 100)

\* power_up: player_state.get_f20() & 0xf   (two's complement: the low 4 bits)
PowerUp(f20) == f20 % 16

PlayerFrom(ps) ==
    [id        |-> ps.id,
     cadence   |-> Cadence(ps.cadenceUHz),
     heartrate |-> ps.heartrate,
     power     |-> ps.power,
     power_up  |-> PowerUp(ps.f20)]

-----------------------------------------------------------------------------
(* The protobuf decoder: zwift_messages (generated, not in src/) and the   *)
(* protobuf crate.  Modelled as the protobuf wire format over the fields   *)
(* the model carries: ServerToClient.player_states = 8 (repeated message), *)
(* ClientToServer.state = 7 (message), PlayerState.id = 1, cadenceUHz = 9, *)
(* heartrate = 11, power = 12, f20 = 20 (varints).  Every other field is   *)
(* skipped by its wire type; a field number 0, a group or an undefined     *)
(* wire type, a carried field with the wrong wire type, or input that ends *)
(* inside a field is a decode error.  Every field is optional, so the      *)
(* empty input decodes to the default message.                             *)

RECURSIVE ReadVarintFrom(_, _, _, _)
ReadVarintFrom(b, i, mult, acc) ==
    IF i > Len(b) THEN [ok |-> FALSE, val |-> 0, next |-> i]
    ELSE IF b[i] < 128 THEN [ok |-> TRUE, val |-> acc + b[i] * mult, next |-> i + 1]
    ELSE ReadVarintFrom(b, i + 1, mult * 128, acc + (b[i] - 128) * mult)

\* the varint starting at b[i]: its value and the index after it
ReadVarint(b, i) == ReadVarintFrom(b, i, 1, 0)

\* the field of `kind` that holds an embedded PlayerState
MessageField(kind) ==
    CASE kind = "ServerToClient" -> 8
      [] kind = "ClientToServer" -> 7
      [] OTHER -> 0

\* the varint fields of PlayerState the model carries
VarintField(kind, fno) ==
    IF kind # "PlayerState" THEN "skip"
    ELSE CASE fno = 1  -> "id"
           [] fno = 9  -> "cadenceUHz"
           [] fno = 11 -> "heartrate"
           [] fno = 12 -> "power"
           [] fno = 20 -> "f20"
           [] OTHER    -> "skip"

DecodeError == [ok |-> FALSE, msg |-> <<>>]

\* Merge the fields of b from index i on into acc.  acc is the sequence of
\* player_states (ServerToClient), the state (ClientToServer: a second
\* occurrence merges into the first) or the PlayerState itself.
RECURSIVE ParseFrom(_, _, _, _)
ParseFrom(kind, b, i, acc) ==
    IF i > Len(b) THEN [ok |-> TRUE, msg |-> acc]
    ELSE
    LET t   == ReadVarint(b, i)
        fno == t.val \div 8
        wt  == t.val % 8
    IN
    IF ~t.ok \/ fno = 0 \/ wt \notin {0, 1, 2, 5} THEN DecodeError
    ELSE IF wt = 0 THEN
        LET v == ReadVarint(b, t.next)
            f == VarintField(kind, fno)
        IN  IF ~v.ok \/ fno = MessageField(kind) THEN DecodeError
            ELSE ParseFrom(kind, b, v.next,
                           IF f = "skip" THEN acc ELSE [acc EXCEPT ![f] = v.val])
    ELSE IF wt = 2 THEN
        LET l    == ReadVarint(b, t.next)
            stop == l.next + l.val
            sub  == SubSeq(b, l.next, stop - 1)
        IN  IF ~l.ok \/ stop - 1 > Len(b) \/ VarintField(kind, fno) # "skip"
            THEN DecodeError
            ELSE IF fno # MessageField(kind) THEN ParseFrom(kind, b, stop, acc)
            ELSE IF kind = "ServerToClient" THEN
                LET ps == ParseFrom("PlayerState", sub, 1, DefaultPlayerState)
                IN  IF ~ps.ok THEN DecodeError
                    ELSE ParseFrom(kind, b, stop, Append(acc, ps.msg))
            ELSE
                LET ps == ParseFrom("PlayerState", sub, 1, acc)
                IN  IF ~ps.ok THEN DecodeError
                    ELSE ParseFrom(kind, b, stop, ps.msg)
    ELSE
        LET stop == t.next + (IF wt = 1 THEN 8 ELSE 4)
        IN  IF stop - 1 > Len(b) \/ VarintField(kind, fno) # "skip"
                 \/ fno = MessageField(kind)
            THEN DecodeError
            ELSE ParseFrom(kind, b, stop, acc)

\* ServerToClient::parse_from_bytes: msg is message.player_states
ParseServerToClient(b) == ParseFrom("ServerToClient", b, 1, <<>>)

\* ClientToServer::parse_from_bytes: msg is message.get_state()
ParseClientToServer(b) == ParseFrom("ClientToServer", b, 1, DefaultPlayerState)

RECURSIVE EncodeVarint(_)
EncodeVarint(n) ==
    IF n < 128 THEN <<n>> ELSE <<128 + (n % 128)>> \o EncodeVarint(n \div 128)

\* tag bytes: 0x08 id, 0x48 cadenceUHz, 0x58 heartrate, 0x60 power, 0xa0 0x01 f20
EncodePlayerState(ps) ==
    <<8>> \o EncodeVarint(ps.id) \o <<72>> \o EncodeVarint(ps.cadenceUHz)
    \o <<88>> \o EncodeVarint(ps.heartrate) \o <<96>> \o EncodeVarint(ps.power)
    \o <<160, 1>> \o EncodeVarint(ps.f20)

RECURSIVE EncodeEntries(_)
EncodeEntries(es) ==
    IF es = <<>> THEN <<>>
    ELSE LET e == EncodePlayerState(Head(es))
         IN  <<66>> \o EncodeVarint(Len(e)) \o e \o EncodeEntries(Tail(es))

\* 08 01 (tag = 1), then one field 8 (0x42) per player state
EncodeServerToClient(es) == <<8, 1>> \o EncodeEntries(es)

\* 08 01 (connected = 1), then field 7 (0x3a), the state
EncodeClientToServer(ps) ==
    LET e == EncodePlayerState(ps)
    IN  <<8, 1, 58>> \o EncodeVarint(Len(e)) \o e

-----------------------------------------------------------------------------
(* ZwiftMessage::get_players *)

Pending == [kind |-> "pending", players |-> <<>>, offset |-> -1, limit |-> -1]

Panicked == [kind |-> "panic", players |-> <<>>, offset |-> -1, limit |-> -1]

Returned(ps, off, lim) ==
    [kind |-> "Some", players |-> ps, offset |-> off, limit |-> lim]

\* a plausible slip: the records collected back to front
FromServerReversed(p) ==
    LET m == ParseServerToClient(p)
    IN  IF m.ok
        THEN Returned([i \in 1..Len(m.msg) |-> PlayerFrom(m.msg[Len(m.msg) + 1 - i])],
                      -1, -1)
        ELSE Returned(<<>>, -1, -1)

\* the FromServer arm
GetPlayersFromServer(p) ==
    LET m == ParseServerToClient(p)
    IN  IF m.ok
        THEN Returned([i \in 1..Len(m.msg) |-> PlayerFrom(m.msg[i])], -1, -1)
        ELSE Returned(<<>>, -1, -1)

\* a - b on an unsigned type: a panic with overflow checks, a wrap without
CheckedSub(a, b, modulus, bld) ==
    [panic |-> a < b /\ bld = "debug", val |-> (a - b) % modulus]

\* a plausible slip: the scan never gives up at `limit`
ScanNoLimit(p, lim, off, ix) ==
    IF \E j \in 1..Len(p) : p[j] = TagByte
    THEN Min({j \in 1..Len(p) : p[j] = TagByte}) - 1
    ELSE off

\* for (ix, &byte) in payload.iter().enumerate(), from index ix on
RECURSIVE ScanFrom(_, _, _, _)
ScanFrom(p, lim, off, ix) ==
    IF ix >= Len(p) THEN off
    ELSE IF p[ix + 1] = TagByte THEN ix
    ELSE IF ix = lim THEN 0
    ELSE ScanFrom(p, lim, off, ix + 1)

\* lines 100-112: the locals `offset` and `limit` as line 113 reads them
Locate(p, bld) ==
    IF Len(p) = 0 THEN [panic |-> TRUE, offset |-> -1, limit |-> -1]
    ELSE
    LET o == CheckedSub(p[1], 1, U8Mod, bld)
        l == CheckedSub(Len(p), TrailerLen, UsizeMod, bld)
    IN  IF o.panic \/ l.panic THEN [panic |-> TRUE, offset |-> -1, limit |-> -1]
        ELSE [panic  |-> FALSE,
              offset |-> IF o.val >= l.val THEN ScanFrom(p, l.val, o.val, 0)
                         ELSE o.val,
              limit  |-> l.val]

\* a plausible slip: a failed decode still yields a (default) record
ToServerAlwaysOne(p, bld) ==
    LET w == Locate(p, bld)
    IN  IF w.panic \/ w.offset > w.limit \/ w.limit > Len(p) THEN Panicked
        ELSE LET m == ParseClientToServer(SubSeq(p, w.offset + 1, w.limit))
             IN  Returned(<<PlayerFrom(IF m.ok THEN m.msg ELSE DefaultPlayerState)>>,
                          w.offset, w.limit)

\* the ToServer arm; &payload[offset..limit] panics on a range outside the slice
GetPlayersToServer(p, bld) ==
    LET w == Locate(p, bld)
    IN  IF w.panic \/ w.offset > w.limit \/ w.limit > Len(p) THEN Panicked
        ELSE LET m == ParseClientToServer(SubSeq(p, w.offset + 1, w.limit))
             IN  IF m.ok THEN Returned(<<PlayerFrom(m.msg)>>, w.offset, w.limit)
                 ELSE Returned(<<>>, w.offset, w.limit)

GetPlayers(tag, p, bld) ==
    IF tag = "FromServer" THEN GetPlayersFromServer(p)
    ELSE GetPlayersToServer(p, bld)

-----------------------------------------------------------------------------
(* Inputs *)

Tags == {"FromServer", "ToServer"}

\* raw cadenceUHz values: around the truncation steps, the spec's examples,
\* the value of the repository's test capture (831713), both signs, i32::MAX
RawCadences ==
    {0, 999, 1000, 16666, 16667, 831713, 1500000, 15000000, 2147483647,
     -1, -999, -1000, -16667, -1500000, -2147483647}

RawStates ==
    [id : {1, 300}, cadenceUHz : RawCadences, f20 : {0, 15, 21, 31, -1},
     heartrate : {0, 120}, power : {200}]

\* the bytes of the payloads enumerated byte by byte: 0x08 (the tag the scan
\* looks for), 0x3a and 0x42 (the two message fields), and small values
\* that serve as header bytes, lengths and varints
ByteSet == {0, 1, 2, 8, 58, 66}

RawPayloads == UNION {[1..n -> ByteSet] : n \in 0..MaxLen}

\* the player states placed in encoded payloads
SampleStates ==
    {[id |-> 1,   cadenceUHz |-> 1500000, f20 |-> 15, heartrate |-> 120, power |-> 200],
     [id |-> 300, cadenceUHz |-> 831713,  f20 |-> 21, heartrate |-> 0,   power |-> 0],
     DefaultPlayerState}

EntryLists == UNION {[1..n -> SampleStates] : n \in 0..MaxEntries}

\* the last four bytes of the repository's ToServer test payload: 1f 40 31 76
Trailer == <<31, 64, 49, 118>>

\* k header bytes, the first one `first`, the others `fill`
Header(k, first, fill) == <<first>> \o [i \in 1..(k - 1) |-> fill]

\* a ClientToServer datagram: header, message, trailer.  The first byte is
\* k + 1 when it encodes the offset of the message correctly.
Framed(k, first, fill, ps) ==
    Header(k, first, fill) \o EncodeClientToServer(ps) \o Trailer

EncodedPayloads ==
    {EncodeServerToClient(es) : es \in EntryLists}
    \cup {Framed(k, k + 1, fill, ps) :
             k \in 1..MaxHeader, fill \in {0, TagByte}, ps \in SampleStates}
    \cup {Framed(k, first, fill, ps) :
             k \in 1..MaxHeader, first \in {0, 200}, fill \in {0, TagByte},
             ps \in SampleStates}

DecodePayloads == RawPayloads \cup EncodedPayloads

\* the encodings above, tabulated by what they encode
ServerSamples ==
    {[entries |-> es, bytes |-> EncodeServerToClient(es)] : es \in EntryLists}

ClientSamples ==
    {[state |-> ps, fill |-> fill, offset |-> k, bytes |-> Framed(k, k + 1, fill, ps)] :
        k \in 1..MaxHeader, fill \in {0, TagByte}, ps \in SampleStates}

-----------------------------------------------------------------------------
(* SpecNormalize: Player::from on one raw PlayerState *)

InitNormalize ==
    /\ build = "release"
    /\ rawState \in RawStates
    /\ player = <<>>
    /\ payload = <<>>
    /\ msgTag = "FromServer"
    /\ offset = -1
    /\ limit = -1
    /\ ret = Pending
    /\ frames = <<>>
    /\ pos = 0
    /\ log = <<>>
    /\ alive = TRUE

Normalize ==
    /\ player = <<>>
    /\ player' = <<PlayerFrom(rawState)>>
    /\ UNCHANGED <<build, rawState, payload, msgTag, offset, limit, ret,
                   frames, pos, log, alive>>

NextNormalize == Normalize

SpecNormalize == InitNormalize /\ [][NextNormalize]_vars

-----------------------------------------------------------------------------
(* SpecDecode: get_players on one tagged message *)

InitDecode ==
    /\ build \in Builds
    /\ rawState = DefaultPlayerState
    /\ player = <<>>
    /\ payload \in DecodePayloads
    /\ msgTag \in Tags
    /\ offset = -1
    /\ limit = -1
    /\ ret = Pending
    /\ frames = <<>>
    /\ pos = 0
    /\ log = <<>>
    /\ alive = TRUE

\* match self { ZwiftMessage::FromServer(payload) => ... }
FromServerArm ==
    /\ msgTag = "FromServer"
    /\ ret = Pending
    /\ LET r == GetPlayers(msgTag, payload, build)
       IN  ret' = r /\ offset' = r.offset /\ limit' = r.limit
    /\ UNCHANGED <<build, rawState, player, payload, msgTag, frames, pos, log, alive>>

\* match self { ZwiftMessage::ToServer(payload) => ... }
ToServerArm ==
    /\ msgTag = "ToServer"
    /\ ret = Pending
    /\ LET r == GetPlayers(msgTag, payload, build)
       IN  ret' = r /\ offset' = r.offset /\ limit' = r.limit
    /\ UNCHANGED <<build, rawState, player, payload, msgTag, frames, pos, log, alive>>

NextDecode == FromServerArm \/ ToServerArm

SpecDecode == InitDecode /\ [][NextDecode]_vars

-----------------------------------------------------------------------------
(* ZwiftCapture: next_payload and Iterator::next over a recorded capture *)

NoFrame == [ether |-> FALSE, udp |-> FALSE, sport |-> 0, dport |-> 0, payload |-> <<>>]

\* self.capture.next() on a capture file: the next frame, or an error once
\* the file is exhausted (and again on every later call)
CaptureNext(fs, p) ==
    IF p < Len(fs) THEN [ok |-> TRUE, packet |-> fs[p + 1], pos |-> p + 1]
    ELSE [ok |-> FALSE, packet |-> NoFrame, pos |-> p]

\* a plausible slip: a datagram to the server port is taken for a server one
ClassifyEitherPort(u) ==
    IF u.sport = ServerPort \/ u.dport = ServerPort THEN "FromServer" ELSE "ToServer"

\* let source_port = u.source_port(); if source_port == 3022 { FromServer } else { ToServer }
Classify(u) ==
    IF u.sport = ServerPort THEN "FromServer" ELSE "ToServer"

\* the frame handed to the classifier: SlicedPacket::from_ethernet succeeded
\* and parsed.transport is Some(TransportSlice::Udp(u))
IsUdp(packet) == packet.ether /\ packet.udp

\* a plausible change: frames without a UDP datagram are skipped in the same pull
RECURSIVE NextPayloadSkipping(_, _)
NextPayloadSkipping(fs, p) ==
    LET c == CaptureNext(fs, p)
    IN  IF ~c.ok THEN [pos |-> c.pos, tag |-> "None", bytes |-> <<>>]
        ELSE IF IsUdp(c.packet)
        THEN [pos |-> c.pos, tag |-> Classify(c.packet), bytes |-> c.packet.payload]
        ELSE NextPayloadSkipping(fs, c.pos)

\* next_payload: the capture position after the call and the Option returned
\* (tag "None", or the tagged message with the payload it borrows)
NextPayload(fs, p) ==
    LET c == CaptureNext(fs, p)
    IN  IF c.ok /\ IsUdp(c.packet)
        THEN [pos |-> c.pos, tag |-> Classify(c.packet), bytes |-> c.packet.payload]
        ELSE [pos |-> c.pos, tag |-> "None", bytes |-> <<>>]

\* Iterator::next: the capture position after the call, the message
\* next_payload gave, and what the call did: "None", "Some" with the
\* records, or "panic"
IterNext(fs, p, bld) ==
    LET m == NextPayload(fs, p)
    IN  IF m.tag = "None"
        THEN [pos |-> m.pos, out |-> [msg |-> "None", kind |-> "None", players |-> <<>>]]
        ELSE LET r == GetPlayers(m.tag, m.bytes, bld)
             IN  [pos |-> m.pos,
                  out |-> [msg |-> m.tag, kind |-> r.kind, players |-> r.players]]

-----------------------------------------------------------------------------
(* SpecCapture: pulls over a recorded capture *)

\* a server datagram with two player states, a client datagram whose first
\* byte encodes the offset, and an empty datagram
CapturePayloads ==
    {EncodeServerToClient(
         <<[id |-> 1,   cadenceUHz |-> 1500000, f20 |-> 15, heartrate |-> 120, power |-> 200],
           [id |-> 300, cadenceUHz |-> 831713,  f20 |-> 21, heartrate |-> 0,   power |-> 0]>>),
     Framed(1, 2, 0, [id |-> 300, cadenceUHz |-> 831713, f20 |-> 21,
                      heartrate |-> 0, power |-> 0]),
     <<>>}

\* source and destination ports that pass the capture filter "udp port 3022"
PortPairs == {<<3022, 50000>>, <<3022, 3022>>, <<50000, 3022>>, <<50001, 3022>>}

\* the frames a capture can hold: one that is not a parsable Ethernet frame,
\* one without a UDP transport (a fragment), and UDP datagrams
FrameSet ==
    {NoFrame,
     [ether |-> TRUE, udp |-> FALSE, sport |-> 0, dport |-> 0, payload |-> <<>>]}
    \cup {[ether |-> TRUE, udp |-> TRUE, sport |-> pp[1], dport |-> pp[2], payload |-> b] :
             pp \in PortPairs, b \in CapturePayloads}

InitCapture ==
    /\ build \in Builds
    /\ rawState = DefaultPlayerState
    /\ player = <<>>
    /\ payload = <<>>
    /\ msgTag = "FromServer"
    /\ offset = -1
    /\ limit = -1
    /\ ret = Pending
    /\ frames \in UNION {[1..n -> FrameSet] : n \in 0..MaxFrames}
    /\ pos = 0
    /\ log = <<>>
    /\ alive = TRUE

\* the consumer calls Iterator::next
Pull ==
    /\ alive
    /\ Len(log) < Len(frames) + ExtraPulls
    /\ LET r == IterNext(frames, pos, build)
       IN  /\ pos' = r.pos
           /\ log' = Append(log, r.out)
           /\ alive' = (r.out.kind # "panic")
    /\ UNCHANGED <<build, rawState, player, payload, msgTag, offset, limit, ret, frames>>

NextCapture == Pull

SpecCapture == InitCapture /\ [][NextCapture]_vars

-----------------------------------------------------------------------------
(* Claims about get_players (SpecDecode) *)

Called == ret # Pending

\* the primary guess of the frame locator, payload[0] - 1 (for payload[0] >= 1)
PrimaryGuess == payload[1] - 1

\* the limit of the frame locator, payload.len() - 4
WindowLimit == Len(payload) - TrailerLen

\* the 0-based indexes before the limit that hold 0x08
TagsBeforeLimit == {j \in 0..(WindowLimit - 1) : payload[j + 1] = TagByte}

\* C2: get_players returns a sequence of records for every tagged message
\* over every payload (empty, shorter than 4 bytes, first byte 0 included):
\* it never panics.
C2_NeverPanics == ret.kind # "panic"

\* C3: on a client payload whose primary guess is at or past the limit, the
\* offset handed to the decoder is the index of the first 0x08 before the
\* limit, and 0 when no byte before the limit is 0x08.
C3_ScanFallback ==
    (/\ msgTag = "ToServer"
     /\ ret.kind = "Some"
     /\ payload[1] >= 1
     /\ PrimaryGuess >= WindowLimit)
    => offset = (IF TagsBeforeLimit # {} THEN Min(TagsBeforeLimit) ELSE 0)

\* C5: the FromServer arm returns one record per decoded player state, the
\* i-th record the normalisation of the i-th entry, and no record when the
\* payload does not decode; an encoded list of N entries gives back exactly
\* the N normalised entries in order.
C5_FromServerRecords ==
    (msgTag = "FromServer" /\ Called) =>
        /\ ret.kind = "Some"
        /\ LET m == ParseServerToClient(payload)
           IN  IF m.ok
               THEN /\ Len(ret.players) = Len(m.msg)
                    /\ \A i \in 1..Len(m.msg) : ret.players[i] = PlayerFrom(m.msg[i])
               ELSE ret.players = <<>>
        /\ \A s \in ServerSamples :
               payload = s.bytes
               => ret.players = [i \in 1..Len(s.entries) |-> PlayerFrom(s.entries[i])]

C5_Witness ==
    /\ msgTag = "FromServer"
    /\ ret.kind = "Some"
    /\ Len(ret.players) = 2
    /\ ret.players[1] # ret.players[2]

\* C6: the ToServer arm, when it returns, returns at most one record: the
\* normalisation of the state of the message decoded from payload[offset..limit],
\* or nothing when that window does not decode; a datagram whose first byte
\* is the offset of the message plus one gives exactly the embedded state.
C6_ToServerRecords ==
    (msgTag = "ToServer" /\ ret.kind = "Some") =>
        /\ Len(ret.players) <= 1
        /\ LET m == ParseClientToServer(SubSeq(payload, offset + 1, limit))
           IN  IF m.ok THEN ret.players = <<PlayerFrom(m.msg)>>
               ELSE ret.players = <<>>
        /\ \A s \in ClientSamples :
               payload = s.bytes => ret.players = <<PlayerFrom(s.state)>>

C6_Witness ==
    /\ msgTag = "ToServer"
    /\ ret.kind = "Some"
    /\ \E s \in ClientSamples :
           /\ payload = s.bytes
           /\ s.state # DefaultPlayerState
           /\ offset = s.offset
           /\ ret.players = <<PlayerFrom(s.state)>>

\* C10: on a client payload of at least 4 bytes whose first byte is at least
\* 1, the call returns and the window it slices satisfies
\* 0 <= offset <= limit = len - 4 <= len, whichever path located it.
C10_WindowInRange ==
    (/\ msgTag = "ToServer"
     /\ Called
     /\ Len(payload) >= TrailerLen
     /\ payload[1] >= 1)
    => /\ ret.kind = "Some"
       /\ 0 <= offset
       /\ offset <= limit
       /\ limit = WindowLimit
       /\ limit <= Len(payload)

\* the scan matched a 0x08 past index 0, with a later 0x08 in the payload
C10_Witness ==
    /\ msgTag = "ToServer"
    /\ ret.kind = "Some"
    /\ payload[1] >= 1
    /\ PrimaryGuess >= WindowLimit
    /\ offset >= 1
    /\ offset < limit
    /\ payload[offset + 1] = TagByte

-----------------------------------------------------------------------------
(* Claims about Player::from (SpecNormalize) *)

Abs(x) == IF x >= 0 THEN x ELSE -x

\* cadence is the raw value divided by 1000, times 6, divided by 100, each
\* division dropping the fraction (toward zero): with q thousands in |raw|,
\* 100 * |cadence| <= 6 * q < 100 * |cadence| + 100, and the sign is raw's
TruncatingFormula ==
    \A i \in 1..Len(player) :
        LET raw == rawState.cadenceUHz
            c   == player[i].cadence
            q   == Abs(raw) \div 1000
        IN  /\ 100 * Abs(c) <= 6 * q
            /\ 6 * q < 100 * Abs(c) + 100
            /\ (raw >= 0 => c >= 0)
            /\ (raw <= 0 => c <= 0)

\* C7 as stated: the truncating formula, and the raw value 15_000_000
\* normalises to cadence 90.
C7_Original ==
    /\ TruncatingFormula
    /\ \A i \in 1..Len(player) :
           rawState.cadenceUHz = 15000000 => player[i].cadence = 90

\* C7 as amended: the truncating formula; the raw value 15_000_000 normalises
\* to cadence 900, and it is 1_500_000 that normalises to 90.
C7_Cadence ==
    /\ TruncatingFormula
    /\ \A i \in 1..Len(player) :
           /\ rawState.cadenceUHz = 15000000 => player[i].cadence = 900
           /\ rawState.cadenceUHz = 1500000 => player[i].cadence = 90

C7_Witness ==
    /\ player # <<>>
    /\ rawState.cadenceUHz = 15000000
    /\ player[1].cadence = 900

-----------------------------------------------------------------------------
(* Claims about the capture iterator (SpecCapture) *)

Pulls == 1..Len(log)

\* the i-th pull found a frame in the capture
HadFrame(i) == i <= Len(frames)

\* C1: a pull returns None only when the capture has no more frames: a frame
\* that is not Ethernet or carries no UDP datagram gives zero records and
\* does not end the iteration.
C1_NoneOnlyWhenExhausted ==
    \A i \in Pulls : log[i].kind = "None" => ~HadFrame(i)

\* C4: every frame that decapsulates to a UDP datagram gives exactly one
\* tagged message, FromServer when the source port is 3022 and ToServer for
\* every other source port, whatever the destination port, the payload and
\* the frames before it.
C4_TagBySourcePort ==
    \A i \in Pulls :
        (HadFrame(i) /\ IsUdp(frames[i])) =>
            log[i].msg = (IF frames[i].sport = 3022 THEN "FromServer" ELSE "ToServer")

C4_Witness ==
    /\ \E i \in Pulls : /\ HadFrame(i) /\ IsUdp(frames[i])
                        /\ frames[i].sport = 3022 /\ frames[i].dport = 3022
                        /\ log[i].msg = "FromServer"
    /\ \E i \in Pulls : /\ HadFrame(i) /\ IsUdp(frames[i])
                        /\ frames[i].sport # 3022 /\ frames[i].dport = 3022
                        /\ log[i].msg = "ToServer"

\* C8: pulling over a finite capture eventually returns None (here: once the
\* consumer has pulled past the end of the capture or can pull no more, some
\* pull returned None), and after a pull returned None no later pull
\* returns records.
C8_EndsAndStaysEnded ==
    /\ (~alive \/ Len(log) = Len(frames) + ExtraPulls)
           => \E i \in Pulls : log[i].kind = "None"
    /\ \A i \in Pulls, j \in Pulls :
           (i < j /\ log[i].kind = "None") => log[j].players = <<>>

\* what a pull over exactly the frame f does
BatchOf(f) ==
    IF IsUdp(f)
    THEN LET r == GetPlayers(IF f.sport = 3022 THEN "FromServer" ELSE "ToServer",
                             f.payload, build)
         IN  [kind |-> r.kind, players |-> r.players]
    ELSE [kind |-> "None", players |-> <<>>]

\* C9: every pull consumes one frame while the capture has one and none
\* afterwards, and what the i-th pull returns is the batch of the i-th frame
\* alone: batches come in capture order, none merged, held back or carried over.
C9_OneFramePerPull ==
    /\ pos = (IF Len(log) <= Len(frames) THEN Len(log) ELSE Len(frames))
    /\ \A i \in Pulls :
           [kind |-> log[i].kind, players |-> log[i].players]
               = (IF HadFrame(i) THEN BatchOf(frames[i])
                  ELSE [kind |-> "None", players |-> <<>>])

C9_Witness ==
    /\ Len(log) >= 2
    /\ log[1].kind = "Some" /\ log[1].players # <<>>
    /\ log[2].kind = "Some" /\ log[2].players # <<>>
    /\ log[1].players # log[2].players
    /\ pos = 2

====
